---- MODULE Spec2Model ----
(***************************************************************************)
(* LedgerView: the party-scoped projection store (services/store), the     *)
(* ledger client's response handling (services/cantonClient) and the scan  *)
(* explorer's fan-out (pages/ScanExplorer).                                *)
(*                                                                         *)
(* Every asynchronous store operation is split at its awaits: the part up  *)
(* to the first await is one action (the call), each resumption after an   *)
(* await is one action (the response arriving).  A call that is suspended  *)
(* at an await is an entry of `tasks`, kept in the order the calls were    *)
(* started and holding the values the call captured in its locals.         *)
(***************************************************************************)
EXTENDS Integers, Sequences, FiniteSets, TLC

\* ------------------------------------------------------------------------
\* Bounds of the model
\* ------------------------------------------------------------------------

\* calls of store operations in one run
MaxCalls == 3
\* stream items in one response of the ledger API
MaxResp == 2
\* template ids given to one query
MaxTemplateIds == 2
\* the largest limit given to getTransactions
MaxLimit == 2
\* contracts in the list the Templates page renders
MaxContracts == 3
\* updates in the list extractTransfers is given
MaxUpdates == 5

\* ------------------------------------------------------------------------
\* Values
\* ------------------------------------------------------------------------

\* JavaScript's null / undefined for the nullable fields (all of them strings here)
Null == "null"

\* connection configs, identified by their endpoint; the client created from a
\* config is identified by the same value
Configs == {"epA", "epB"}

\* parties, identified by their partyId
Parties == {"P1", "P2"}

\* what a failed request to `path` throws: fetch and CantonClient.request throw
\* Errors only, a CantonAPIError's message names the path
Thrown(path) == { [isError |-> TRUE, message |-> "error " \o path] }

\* `error instanceof Error ? error.message : fallback`
errorMessage(err, fallback) == IF err.isError THEN err.message ELSE fallback

\* `a || b` on strings: the empty string and undefined are falsy
orElse(a, b) == IF a = "" \/ a = Null THEN b ELSE a

\* ------------------------------------------------------------------------
\* The ledger as the participant node answers for it
\* ------------------------------------------------------------------------

NoEvent == [contractId |-> "", templateId |-> "", signatories |-> <<>>, observers |-> <<>>]

\* the created events the node knows; c1 and c2 are visible to P1 only, c3 to P2 only
CreatedEvents ==
    { [contractId |-> "c1", templateId |-> "pkg:Mod:A", signatories |-> <<"P1">>, observers |-> <<>>],
      [contractId |-> "c2", templateId |-> "pkg:Mod:B", signatories |-> <<"P1">>, observers |-> <<"P1">>],
      [contractId |-> "c3", templateId |-> "pkg:Mod:A", signatories |-> <<"P2">>, observers |-> <<>>] }

Range(s) == { s[k] : k \in 1..Len(s) }

\* the stream items of an active-contracts response for partyId: entries with a
\* created event the party is a stakeholder of, and entries without one
ACSItems(partyId) ==
    { [hasCreated |-> FALSE, createdEvent |-> NoEvent, offset |-> 0] } \cup
    { [hasCreated |-> TRUE, createdEvent |-> e, offset |-> 1] :
        e \in { x \in CreatedEvents : partyId \in Range(x.signatories) \cup Range(x.observers) } }

\* the flat transactions the node knows, each visible to one party
LedgerTransactions ==
    { [updateId |-> "u1", offset |-> 1, party |-> "P1"],
      [updateId |-> "u2", offset |-> 3, party |-> "P1"],
      [updateId |-> "u3", offset |-> 2, party |-> "P2"] }

NoTransaction == [updateId |-> "", offset |-> 0, party |-> ""]

\* the stream items of a transactions response for partyId
TxItems(partyId) ==
    { [hasTransaction |-> FALSE, transaction |-> NoTransaction] } \cup
    { [hasTransaction |-> TRUE, transaction |-> t] :
        t \in { x \in LedgerTransactions : x.party = partyId } }

\* all sequences over S of length at most n
SeqsUpTo(S, n) == UNION { [1..k -> S] : k \in 0..n }

\* the active-contracts responses, per requesting party
ACSResponses == [partyId \in Parties |-> SeqsUpTo(ACSItems(partyId), MaxResp)]

\* the transactions responses, per requesting party: a response is in ledger
\* order, its offsets strictly increase
TxResponses ==
    [partyId \in Parties |->
        { r \in SeqsUpTo(TxItems(partyId), MaxResp) :
            \A a, b \in 1..Len(r) :
                (a < b /\ r[a].hasTransaction /\ r[b].hasTransaction)
                    => r[a].transaction.offset < r[b].transaction.offset }]

\* the bodies GET /v2/parties answers with, with or without the partyDetails field
PartyResponses ==
    { [hasPartyDetails |-> FALSE, partyDetails |-> <<>>],
      [hasPartyDetails |-> TRUE, partyDetails |-> <<>>],
      [hasPartyDetails |-> TRUE, partyDetails |-> <<"P1", "P2">>] }

\* an optional field is a sequence of length at most one
Absent == <<>>
Present(v) == <<v>>

\* the outcomes of GET /v2/state/ledger-end: a ledger end with its offset, or
\* a failure
PingOutcomes ==
    { [ok |-> TRUE, offset |-> Present(3), err |-> [isError |-> TRUE, message |-> ""]] } \cup
    { [ok |-> FALSE, offset |-> Absent, err |-> e] : e \in Thrown("/v2/state/ledger-end") }

\* ------------------------------------------------------------------------
\* Ledger client (services/cantonClient.ts): what it makes of a response
\* ------------------------------------------------------------------------

\* a variant of getConnectionStatus that reports a failed ping without a message
getConnectionStatusSilent(endpoint, ping) ==
    IF ping.ok
    THEN [connected |-> TRUE, endpoint |-> endpoint,
          ledgerEnd |-> ping.offset, error |-> Null]
    ELSE [connected |-> FALSE, endpoint |-> endpoint,
          ledgerEnd |-> Absent, error |-> ""]

\* CantonClient.getConnectionStatus: never throws, a failed ping becomes a status
getConnectionStatus(endpoint, ping) ==
    IF ping.ok
    THEN [connected |-> TRUE, endpoint |-> endpoint,
          ledgerEnd |-> ping.offset, error |-> Null]
    ELSE [connected |-> FALSE, endpoint |-> endpoint,
          ledgerEnd |-> Absent, error |-> errorMessage(ping.err, "Unknown error")]

\* CantonClient.getParties: `response.partyDetails || []`
getParties(response) ==
    IF response.hasPartyDetails THEN response.partyDetails ELSE <<>>

\* CantonClient.eventToContract
eventToContract(event, offset) ==
    [contractId |-> event.contractId,
     templateId |-> event.templateId,
     stakeholders |-> event.signatories \o event.observers,
     observers |-> event.observers,
     signatories |-> event.signatories,
     offset |-> offset]

\* CantonClient.getActiveContracts, from the response on: one Contract per entry
\* that carries a created event, in response order
RECURSIVE getActiveContracts(_)
getActiveContracts(response) ==
    IF response = <<>> THEN <<>>
    ELSE LET item == Head(response)
             rest == getActiveContracts(Tail(response))
         IN IF item.hasCreated
            THEN <<eventToContract(item.createdEvent, item.offset)>> \o rest
            ELSE rest

\* Array.prototype.slice(0, n)
slice(s, n) == SubSeq(s, 1, IF n < Len(s) THEN n ELSE Len(s))

RECURSIVE flatTransactions(_)
flatTransactions(response) ==
    IF response = <<>> THEN <<>>
    ELSE LET item == Head(response)
             rest == flatTransactions(Tail(response))
         IN IF item.hasTransaction THEN <<item.transaction>> \o rest ELSE rest

\* CantonClient.getTransactions, from the response on: the flat transactions in
\* response order, cut to limit when limit is truthy
getTransactions(response, limit) ==
    IF limit # 0 THEN slice(flatTransactions(response), limit)
    ELSE flatTransactions(response)

\* ------------------------------------------------------------------------
\* Store (services/store): state
\* ------------------------------------------------------------------------

VARIABLES
    config,             \* ConnectionState.config: a config or Null
    status,             \* ConnectionState.status
    client,             \* ConnectionState.client: the config it was created from, or Null
    activeParty,        \* PartyLensState.activeParty: a party or Null
    availableParties,   \* PartyLensState.availableParties
    contracts,          \* DataState.contracts: Map contractId -> Contract
    transactions,       \* DataState.transactions
    lastOffset,         \* DataState.lastOffset
    isLoading,          \* DataState.isLoading
    error,              \* DataState.error: a message or Null
    tasks,              \* the store calls suspended at an await, in start order
    calls,              \* history: the number of calls made
    lastOp,             \* history: the step taken last
    switchCtx,          \* history: in what situation the last setActiveParty was called
    unhandled           \* history: a refreshData promise was rejected

storeVars == <<config, status, client, activeParty, availableParties,
               contracts, transactions, lastOffset, isLoading, error>>
asyncVars == <<tasks, calls, lastOp, switchCtx, unhandled>>

\* new Map()
EmptyMap == [k \in {} |-> NoEvent]

\* Map.prototype.set
MapSet(m, k, v) == [x \in DOMAIN m \cup {k} |-> IF x = k THEN v ELSE m[x]]

\* initialConnectionState.status
initialStatus == [connected |-> FALSE, endpoint |-> "", ledgerEnd |-> Absent, error |-> Null]

initialConnectionState ==
    /\ config' = Null
    /\ status' = initialStatus
    /\ client' = Null

initialPartyState ==
    /\ activeParty' = Null
    /\ availableParties' = <<>>

\* a variant of initialDataState that keeps the transaction list
initialDataStateKeepingTransactions ==
    /\ contracts' = EmptyMap
    /\ lastOffset' = 0
    /\ isLoading' = FALSE
    /\ error' = Null
    /\ UNCHANGED transactions

initialDataState ==
    /\ contracts' = EmptyMap
    /\ transactions' = <<>>
    /\ lastOffset' = 0
    /\ isLoading' = FALSE
    /\ error' = Null

\* ------------------------------------------------------------------------
\* Store: the suspended calls
\* ------------------------------------------------------------------------

\* loadTransactions' default limit
DefaultLimit == 100

\* A suspended call.  op: the store operation; cfg: the client (config) it holds
\* in a local; party, lastOffset, limit: the values a load read from get() when
\* it started; pc: where a connect is suspended; status: the status a connect
\* got from its probe; lc, lt: the state of the active-contracts and of the
\* transactions request of a load ("none": not issued, "pending", "ok", "failed":
\* failed and caught, "rejected": the load's promise rejected); staleC, staleT
\* (history): a load of the same kind that was started later has already
\* committed its result.
Task(op, cfg, party, off, limit, pc, lc, lt) ==
    [op |-> op, cfg |-> cfg, party |-> party, lastOffset |-> off, limit |-> limit,
     pc |-> pc, status |-> initialStatus, lc |-> lc, lt |-> lt,
     staleC |-> FALSE, staleT |-> FALSE]

Idx == 1..Len(tasks)

RemoveAt(s, i) == [k \in 1..(Len(s) - 1) |-> IF k < i THEN s[k] ELSE s[k + 1]]

Probing == { i \in Idx : tasks[i].op = "connect" /\ tasks[i].pc = "probe" }
Listing == { i \in Idx : tasks[i].op = "connect" /\ tasks[i].pc = "parties" }
Reprobing == { i \in Idx : tasks[i].op = "refreshConnection" }
ContractsInFlight == { i \in Idx : tasks[i].lc = "pending" }
TransactionsInFlight == { i \in Idx : tasks[i].lt = "pending" }
LoadsInFlight == ContractsInFlight \cup TransactionsInFlight

\* a call of a store operation, and the resumption of a suspended one
Called == calls < MaxCalls /\ calls' = calls + 1
Resumed == calls' = calls

\* a load starting ends the situation "setActiveParty's reload is the only load"
AfterLoadStart(ctx) == IF ctx = "solo" THEN "none" ELSE ctx

\* ------------------------------------------------------------------------
\* Store: connection actions
\* ------------------------------------------------------------------------

\* connect(config), up to `await client.getConnectionStatus()`
Connect(cfg) ==
    /\ Called
    /\ isLoading' = TRUE
    /\ error' = Null
    /\ tasks' = Append(tasks, Task("connect", cfg, Null, 0, 0, "probe", "none", "none"))
    /\ lastOp' = "connect"
    /\ UNCHANGED <<config, status, client, activeParty, availableParties,
                   contracts, transactions, lastOffset, switchCtx, unhandled>>

\* connect, resumed with the probe's status: not connected => record and return false
ConnectNotConnected(i, ping) ==
    LET t == tasks[i]
        st == getConnectionStatus(t.cfg, ping)
    IN /\ i \in Probing
       /\ ~st.connected
       /\ status' = st
       /\ error' = orElse(st.error, "Failed to connect")
       /\ isLoading' = FALSE
       /\ Resumed
       /\ tasks' = RemoveAt(tasks, i)
       /\ lastOp' = "connect:false"
       /\ UNCHANGED <<config, client, activeParty, availableParties,
                      contracts, transactions, lastOffset, switchCtx, unhandled>>

\* connect, resumed with the probe's status: connected => `await client.getParties()`
ConnectProbed(i, ping) ==
    LET t == tasks[i]
        st == getConnectionStatus(t.cfg, ping)
    IN /\ i \in Probing
       /\ st.connected
       /\ Resumed
       /\ tasks' = [tasks EXCEPT ![i].pc = "parties", ![i].status = st]
       /\ lastOp' = "connect:probed"
       /\ UNCHANGED <<storeVars, switchCtx, unhandled>>

\* connect, resumed with the party list: commit and return true
ConnectOk(i, response) ==
    LET t == tasks[i]
    IN /\ i \in Listing
       /\ config' = t.cfg
       /\ client' = t.cfg
       /\ status' = t.status
       /\ availableParties' = getParties(response)
       /\ isLoading' = FALSE
       /\ error' = Null
       /\ Resumed
       /\ tasks' = RemoveAt(tasks, i)
       /\ lastOp' = "connect:true"
       /\ UNCHANGED <<activeParty, contracts, transactions, lastOffset,
                      switchCtx, unhandled>>

\* connect, the catch block: getParties threw
ConnectThrew(i, err) ==
    LET t == tasks[i]
        msg == errorMessage(err, "Connection failed")
    IN /\ i \in Listing
       /\ status' = [connected |-> FALSE, endpoint |-> t.cfg,
                     ledgerEnd |-> Absent, error |-> msg]
       /\ error' = msg
       /\ isLoading' = FALSE
       /\ Resumed
       /\ tasks' = RemoveAt(tasks, i)
       /\ lastOp' = "connect:false"
       /\ UNCHANGED <<config, client, activeParty, availableParties,
                      contracts, transactions, lastOffset, switchCtx, unhandled>>

\* disconnect(): one set() of the three initial states
Disconnect ==
    /\ Called
    /\ initialConnectionState
    /\ initialPartyState
    /\ initialDataState
    /\ lastOp' = "disconnect"
    /\ switchCtx' = "none"
    /\ UNCHANGED <<tasks, unhandled>>

\* reset(): one set() of all initial states (the UI and scan fields are not modelled)
Reset ==
    /\ Called
    /\ initialConnectionState
    /\ initialPartyState
    /\ initialDataState
    /\ lastOp' = "reset"
    /\ switchCtx' = "none"
    /\ UNCHANGED <<tasks, unhandled>>

\* refreshConnection(), up to `await client.getConnectionStatus()`
RefreshConnection ==
    /\ client # Null /\ config # Null
    /\ Called
    /\ tasks' = Append(tasks, Task("refreshConnection", client, Null, 0, 0, "probe", "none", "none"))
    /\ lastOp' = "refreshConnection"
    /\ UNCHANGED <<storeVars, switchCtx, unhandled>>

\* refreshConnection, resumed: set({ status })
RefreshConnectionDone(i, ping) ==
    LET t == tasks[i]
    IN /\ i \in Reprobing
       /\ status' = getConnectionStatus(t.cfg, ping)
       /\ Resumed
       /\ tasks' = RemoveAt(tasks, i)
       /\ lastOp' = "refreshConnection:done"
       /\ UNCHANGED <<config, client, activeParty, availableParties, contracts,
                      transactions, lastOffset, isLoading, error, switchCtx, unhandled>>

\* ------------------------------------------------------------------------
\* Store: data actions
\* ------------------------------------------------------------------------

\* refreshData() as called with `party` being the store's activeParty: both loads
\* run up to their awaits in the same turn; a load returns at once without a
\* client or a party
refreshData(party) ==
    IF party # Null /\ client # Null
    THEN /\ isLoading' = TRUE
         /\ error' = Null
         /\ tasks' = Append(tasks, Task("refreshData", client, party, lastOffset,
                                        DefaultLimit, "loads", "pending", "pending"))
    ELSE UNCHANGED <<isLoading, error, tasks>>

\* the situation setActiveParty(party) is called in
SwitchContext(party) ==
    IF client = Null THEN "none"
    ELSE IF \E i \in ContractsInFlight : tasks[i].party # party THEN "raced"
    ELSE IF LoadsInFlight = {} THEN "solo"
    ELSE "none"

\* setActiveParty(party): set the party, then refreshData()
SetActiveParty(party) ==
    /\ Called
    /\ activeParty' = party
    /\ refreshData(party)
    /\ lastOp' = "setActiveParty"
    /\ switchCtx' = SwitchContext(party)
    /\ UNCHANGED <<config, status, client, availableParties,
                   contracts, transactions, lastOffset, unhandled>>

\* refreshData()
RefreshData ==
    /\ Called
    /\ refreshData(activeParty)
    /\ lastOp' = IF activeParty # Null /\ client # Null THEN "refreshData" ELSE "refreshData:skip"
    /\ switchCtx' = IF activeParty # Null /\ client # Null THEN AfterLoadStart(switchCtx) ELSE switchCtx
    /\ UNCHANGED <<config, status, client, activeParty, availableParties,
                   contracts, transactions, lastOffset, unhandled>>

\* a variant of LoadContracts that sets the flags before it looks at its guard
LoadContractsFlagging ==
    IF client # Null /\ activeParty # Null
    THEN /\ Called
         /\ isLoading' = TRUE
         /\ error' = Null
         /\ tasks' = Append(tasks, Task("loadContracts", client, activeParty, 0, 0,
                                        "loads", "pending", "none"))
         /\ lastOp' = "loadContracts"
         /\ switchCtx' = AfterLoadStart(switchCtx)
         /\ UNCHANGED <<config, status, client, activeParty, availableParties,
                        contracts, transactions, lastOffset, unhandled>>
    ELSE /\ Called
         /\ isLoading' = TRUE
         /\ error' = Null
         /\ lastOp' = "loadContracts:skip"
         /\ UNCHANGED <<config, status, client, activeParty, availableParties,
                        contracts, transactions, lastOffset, tasks, switchCtx, unhandled>>

\* loadContracts(), up to `await client.getActiveContracts(...)`
LoadContracts ==
    IF client # Null /\ activeParty # Null
    THEN /\ Called
         /\ isLoading' = TRUE
         /\ error' = Null
         /\ tasks' = Append(tasks, Task("loadContracts", client, activeParty, 0, 0,
                                        "loads", "pending", "none"))
         /\ lastOp' = "loadContracts"
         /\ switchCtx' = AfterLoadStart(switchCtx)
         /\ UNCHANGED <<config, status, client, activeParty, availableParties,
                        contracts, transactions, lastOffset, unhandled>>
    ELSE /\ Called
         /\ lastOp' = "loadContracts:skip"
         /\ UNCHANGED <<storeVars, tasks, switchCtx, unhandled>>

\* loadTransactions(limit), up to `await client.getTransactions(...)`
LoadTransactions(limit) ==
    IF client # Null /\ activeParty # Null
    THEN /\ Called
         /\ isLoading' = TRUE
         /\ error' = Null
         /\ tasks' = Append(tasks, Task("loadTransactions", client, activeParty, lastOffset,
                                        limit, "loads", "none", "pending"))
         /\ lastOp' = "loadTransactions"
         /\ switchCtx' = AfterLoadStart(switchCtx)
         /\ UNCHANGED <<config, status, client, activeParty, availableParties,
                        contracts, transactions, lastOffset, unhandled>>
    ELSE /\ Called
         /\ lastOp' = "loadTransactions:skip"
         /\ UNCHANGED <<storeVars, tasks, switchCtx, unhandled>>

\* the Map loadContracts builds from the client's Contract[]
RECURSIVE contractMap(_)
contractMap(cs) ==
    IF cs = <<>> THEN EmptyMap
    ELSE LET front == SubSeq(cs, 1, Len(cs) - 1)
             last == cs[Len(cs)]
         IN MapSet(contractMap(front), last.contractId, last)

\* Math.max(...transactions.map(t => t.offset)) of a non-empty list
maxOffset(txs) ==
    CHOOSE m \in { txs[k].offset : k \in 1..Len(txs) } :
        \A k \in 1..Len(txs) : txs[k].offset <= m

\* The suspended calls once request `kind` ("lc" or "lt") of call i has settled
\* as `how`: a call whose requests have all settled has returned and is gone;
\* on a commit, the same request of every call started earlier becomes stale.
Settle(i, kind, how) ==
    LET mark(j, t) ==
            IF how = "ok" /\ j < i
            THEN IF kind = "lc" /\ t.lc = "pending" THEN [t EXCEPT !.staleC = TRUE]
                 ELSE IF kind = "lt" /\ t.lt = "pending" THEN [t EXCEPT !.staleT = TRUE]
                 ELSE t
            ELSE t
        upd(t) == IF kind = "lc" THEN [t EXCEPT !.lc = how] ELSE [t EXCEPT !.lt = how]
        all == [j \in Idx |-> IF j = i THEN upd(tasks[j]) ELSE mark(j, tasks[j])]
    IN IF all[i].lc # "pending" /\ all[i].lt # "pending" THEN RemoveAt(all, i) ELSE all

\* Promise.all / the load's own promise: settling a request as "rejected" rejects
\* the promise of the call, which no caller in the store handles
Rejects(how) == how = "rejected"

\* a variant of LoadContractsOk that sets the new contracts into the Map held
LoadContractsOkMerging(i, response) ==
    /\ i \in ContractsInFlight
    /\ contracts' = (LET new == contractMap(getActiveContracts(response))
                     IN [c \in DOMAIN contracts \cup DOMAIN new |->
                            IF c \in DOMAIN new THEN new[c] ELSE contracts[c]])
    /\ isLoading' = FALSE
    /\ Resumed
    /\ tasks' = Settle(i, "lc", "ok")
    /\ lastOp' = "loadContracts:ok"
    /\ UNCHANGED <<config, status, client, activeParty, availableParties,
                   transactions, lastOffset, error, switchCtx, unhandled>>

\* loadContracts, resumed with the response: commit the new Map
LoadContractsOk(i, response) ==
    /\ i \in ContractsInFlight
    /\ contracts' = contractMap(getActiveContracts(response))
    /\ isLoading' = FALSE
    /\ Resumed
    /\ tasks' = Settle(i, "lc", "ok")
    /\ lastOp' = "loadContracts:ok"
    /\ UNCHANGED <<config, status, client, activeParty, availableParties,
                   transactions, lastOffset, error, switchCtx, unhandled>>

\* a variant of the catch block of loadContracts that throws the error again
LoadContractsFailRethrowing(i, err) ==
    /\ i \in ContractsInFlight
    /\ error' = errorMessage(err, "Failed to load contracts")
    /\ isLoading' = FALSE
    /\ Resumed
    /\ tasks' = RemoveAt(tasks, i)
    /\ lastOp' = "loadContracts:fail"
    /\ unhandled' = (unhandled \/ Rejects("rejected"))
    /\ UNCHANGED <<config, status, client, activeParty, availableParties,
                   contracts, transactions, lastOffset, switchCtx>>

\* a variant of the catch block of loadContracts that drops the contracts held
LoadContractsFailClearing(i, err) ==
    /\ i \in ContractsInFlight
    /\ contracts' = EmptyMap
    /\ error' = errorMessage(err, "Failed to load contracts")
    /\ isLoading' = FALSE
    /\ Resumed
    /\ tasks' = Settle(i, "lc", "failed")
    /\ lastOp' = "loadContracts:fail"
    /\ unhandled' = (unhandled \/ Rejects("failed"))
    /\ UNCHANGED <<config, status, client, activeParty, availableParties,
                   transactions, lastOffset, switchCtx>>

\* loadContracts, the catch block
LoadContractsFail(i, err) ==
    /\ i \in ContractsInFlight
    /\ error' = errorMessage(err, "Failed to load contracts")
    /\ isLoading' = FALSE
    /\ Resumed
    /\ tasks' = Settle(i, "lc", "failed")
    /\ lastOp' = "loadContracts:fail"
    /\ unhandled' = (unhandled \/ Rejects("failed"))
    /\ UNCHANGED <<config, status, client, activeParty, availableParties,
                   contracts, transactions, lastOffset, switchCtx>>

\* loadTransactions, resumed with the response: commit the list and the offset
LoadTransactionsOk(i, response) ==
    LET t == tasks[i]
        txs == getTransactions(response, t.limit)
    IN /\ i \in TransactionsInFlight
       /\ transactions' = txs
       /\ lastOffset' = IF Len(txs) > 0 THEN maxOffset(txs) ELSE t.lastOffset
       /\ isLoading' = FALSE
       /\ Resumed
       /\ tasks' = Settle(i, "lt", "ok")
       /\ lastOp' = "loadTransactions:ok"
       /\ UNCHANGED <<config, status, client, activeParty, availableParties,
                      contracts, error, switchCtx, unhandled>>

\* a variant of the catch block of loadTransactions that also marks the store
\* as not connected
LoadTransactionsFailDisconnecting(i, err) ==
    /\ i \in TransactionsInFlight
    /\ status' = [status EXCEPT !.connected = FALSE]
    /\ error' = errorMessage(err, "Failed to load transactions")
    /\ isLoading' = FALSE
    /\ Resumed
    /\ tasks' = Settle(i, "lt", "failed")
    /\ lastOp' = "loadTransactions:fail"
    /\ unhandled' = (unhandled \/ Rejects("failed"))
    /\ UNCHANGED <<config, client, activeParty, availableParties,
                   contracts, transactions, lastOffset, switchCtx>>

\* loadTransactions, the catch block
LoadTransactionsFail(i, err) ==
    /\ i \in TransactionsInFlight
    /\ error' = errorMessage(err, "Failed to load transactions")
    /\ isLoading' = FALSE
    /\ Resumed
    /\ tasks' = Settle(i, "lt", "failed")
    /\ lastOp' = "loadTransactions:fail"
    /\ unhandled' = (unhandled \/ Rejects("failed"))
    /\ UNCHANGED <<config, status, client, activeParty, availableParties,
                   contracts, transactions, lastOffset, switchCtx>>

\* ------------------------------------------------------------------------
\* Store: specification
\* ------------------------------------------------------------------------


\* the store as created, with `config` rehydrated from browser storage by persist
StoreInit ==
    /\ config \in Configs \cup {Null}
    /\ status = initialStatus
    /\ client = Null
    /\ activeParty = Null
    /\ availableParties = <<>>
    /\ contracts = EmptyMap
    /\ transactions = <<>>
    /\ lastOffset = 0
    /\ isLoading = FALSE
    /\ error = Null
    /\ tasks = <<>>
    /\ calls = 0
    /\ lastOp = "init"
    /\ switchCtx = "none"
    /\ unhandled = FALSE

\* ------------------------------------------------------------------------
\* Scan explorer (pages/ScanExplorer): state
\* ------------------------------------------------------------------------

\* fan-outs started after the one the component starts when it mounts
MaxRefetches == 1

Periods == {"24h", "7d"}
ScanUrls == {"urlA", "urlB"}
\* initialScanState.scanConfig.url
DefaultScanUrl == "urlA"

VARIABLES
    scanUrl,            \* scanConfig.url, which scanClient is created from
    activityPeriod, pricePeriod, validatorsPeriod,
    scans, updates,     \* the two primary facets
    stats, price, cantonScanUpdates,
    activityHistory, priceHistory, validators,
    explorerLoading,    \* the component's isLoading
    explorerError,      \* the component's error: a message or Null
    fanouts,            \* the fetchExplorerData calls suspended at allSettled, in start order
    refetches,          \* history: the number of fan-outs started after the mount
    settled             \* history: the fan-out that settled last, and which of its calls rejected

explorerVars == <<scanUrl, activityPeriod, pricePeriod, validatorsPeriod,
                  scans, updates, stats, price, cantonScanUpdates,
                  activityHistory, priceHistory, validators,
                  explorerLoading, explorerError, fanouts, refetches, settled>>

\* a settled promise of Promise.allSettled; the code reads no field of a
\* rejected one but its status, so it carries a value of the fulfilled shape
Fulfilled(v) == [status |-> "fulfilled", value |-> v]
Rejected(v) == [status |-> "rejected", value |-> v]

\* the defaults fetchExplorerData passes to getVal
defaultScans == [hasScans |-> TRUE, scans |-> <<>>]
defaultUpdates == [hasTransactions |-> TRUE, transactions |-> <<>>]
defaultHistory == [hasData |-> TRUE, data |-> <<>>]
defaultValidators == [shape |-> "validators", list |-> <<>>]

\* what the eight calls of a fan-out may settle as; a list that was fetched is
\* tagged with the url or the period it was fetched for
ScansResults(url) ==
    { Fulfilled([hasScans |-> TRUE, scans |-> <<url>>]),
      Fulfilled([hasScans |-> FALSE, scans |-> <<>>]),
      Rejected(defaultScans) }
UpdatesResults(url) ==
    { Fulfilled([hasTransactions |-> TRUE, transactions |-> <<url>>]),
      Rejected(defaultUpdates) }
ObjectResults(name) == { Fulfilled(name), Rejected(Null) }
HistoryResults(period) ==
    { Fulfilled([hasData |-> TRUE, data |-> <<period>>]), Rejected(defaultHistory) }
ValidatorsResults(period) ==
    { Fulfilled([shape |-> sh, list |-> <<period>>]) : sh \in {"array", "data", "validators"} }
    \cup { Fulfilled([shape |-> "none", list |-> <<>>]), Rejected(defaultValidators) }

\* the results of the fan-out f, in the order of the array given to allSettled
FanoutResults(f) ==
    ScansResults(f.url) \X UpdatesResults(f.url)
    \X ObjectResults("stats") \X ObjectResults("price") \X ObjectResults("updates")
    \X HistoryResults(f.activityPeriod) \X HistoryResults(f.pricePeriod)
    \X ValidatorsResults(f.validatorsPeriod)

\* getVal: the value of a fulfilled result, the default of a rejected one
getVal(result, defaultVal) ==
    IF result.status = "fulfilled" THEN result.value ELSE defaultVal

\* `Array.isArray(v) ? v : v.data || v.validators || []`
validatorList(v) == IF v.shape = "none" THEN <<>> ELSE v.list

NotSettled == [settled |-> FALSE]

\* the calls of a fan-out: results[1] and results[2] are the primary ones
Primary == {1, 2}
Secondary == 3..8

\* a variant of bothPrimaryRejected: some call rejected
anyRejected(results) ==
    \E k \in Primary \cup Secondary : results[k].status = "rejected"

\* a variant of bothPrimaryRejected: one of the primary calls rejected
eitherPrimaryRejected(results) ==
    results[1].status = "rejected" \/ results[2].status = "rejected"

\* `results[0].status === 'rejected' && results[1].status === 'rejected'`
bothPrimaryRejected(results) ==
    results[1].status = "rejected" /\ results[2].status = "rejected"

\* ------------------------------------------------------------------------
\* Scan explorer: actions
\* ------------------------------------------------------------------------

\* fetchExplorerData(), up to `await Promise.allSettled([...])`, with the
\* url and the periods of the render it was created in
fetchExplorerData(url, ap, pp, vp) ==
    /\ explorerLoading' = TRUE
    /\ explorerError' = Null
    /\ fanouts' = Append(fanouts, [url |-> url, activityPeriod |-> ap, pricePeriod |-> pp,
                                   validatorsPeriod |-> vp, errorSince |-> FALSE])

Refetched == refetches < MaxRefetches /\ refetches' = refetches + 1

facets == <<scans, updates, stats, price, cantonScanUpdates,
            activityHistory, priceHistory, validators>>

\* a click on a period button of the activity chart: the effect runs again
SetActivityPeriod(period) ==
    /\ period # activityPeriod
    /\ Refetched
    /\ activityPeriod' = period
    /\ fetchExplorerData(scanUrl, period, pricePeriod, validatorsPeriod)
    /\ UNCHANGED <<scanUrl, pricePeriod, validatorsPeriod, facets, settled>>

SetPricePeriod(period) ==
    /\ period # pricePeriod
    /\ Refetched
    /\ pricePeriod' = period
    /\ fetchExplorerData(scanUrl, activityPeriod, period, validatorsPeriod)
    /\ UNCHANGED <<scanUrl, activityPeriod, validatorsPeriod, facets, settled>>

SetValidatorsPeriod(period) ==
    /\ period # validatorsPeriod
    /\ Refetched
    /\ validatorsPeriod' = period
    /\ fetchExplorerData(scanUrl, activityPeriod, pricePeriod, period)
    /\ UNCHANGED <<scanUrl, activityPeriod, pricePeriod, facets, settled>>

\* scanConfig.url changes: the effect runs again
SetScanUrl(url) ==
    /\ url # scanUrl
    /\ Refetched
    /\ scanUrl' = url
    /\ fetchExplorerData(url, activityPeriod, pricePeriod, validatorsPeriod)
    /\ UNCHANGED <<activityPeriod, pricePeriod, validatorsPeriod, facets, settled>>

\* the Refresh button, disabled while loading
ExplorerRefresh ==
    /\ ~explorerLoading
    /\ Refetched
    /\ fetchExplorerData(scanUrl, activityPeriod, pricePeriod, validatorsPeriod)
    /\ UNCHANGED <<scanUrl, activityPeriod, pricePeriod, validatorsPeriod, facets, settled>>

\* fetchExplorerData, resumed with the eight settled results
ExplorerSettle(i, results) ==
    LET escalates == bothPrimaryRejected(results)
    IN /\ i \in 1..Len(fanouts)
       /\ scans' = (LET v == getVal(results[1], defaultScans)
                    IN IF v.hasScans THEN v.scans ELSE <<>>)
       /\ updates' = (LET v == getVal(results[2], defaultUpdates)
                      IN IF v.hasTransactions THEN v.transactions ELSE <<>>)
       /\ stats' = getVal(results[3], Null)
       /\ price' = getVal(results[4], Null)
       /\ cantonScanUpdates' = getVal(results[5], Null)
       /\ activityHistory' = (LET v == getVal(results[6], defaultHistory)
                              IN IF v.hasData THEN v.data ELSE <<>>)
       /\ priceHistory' = (LET v == getVal(results[7], defaultHistory)
                           IN IF v.hasData THEN v.data ELSE <<>>)
       /\ validators' = validatorList(getVal(results[8], defaultValidators))
       /\ explorerError' = IF escalates
                           THEN "Could not connect to Scan API. Please check your network or URL."
                           ELSE explorerError
       /\ explorerLoading' = FALSE
       /\ fanouts' = [k \in 1..(Len(fanouts) - 1) |->
                        LET f == IF k < i THEN fanouts[k] ELSE fanouts[k + 1]
                        IN [f EXCEPT !.errorSince = f.errorSince \/ escalates]]
       /\ settled' = [settled |-> TRUE, fanout |-> fanouts[i],
                       rejected |-> {k \in Primary \cup Secondary : results[k].status = "rejected"}]
       /\ UNCHANGED <<scanUrl, activityPeriod, pricePeriod, validatorsPeriod, refetches>>

\* the component after it has mounted: the effect has started the first fan-out
ExplorerInit ==
    /\ scanUrl = DefaultScanUrl
    /\ activityPeriod = "24h" /\ pricePeriod = "24h" /\ validatorsPeriod = "24h"
    /\ scans = <<>> /\ updates = <<>>
    /\ stats = Null /\ price = Null /\ cantonScanUpdates = Null
    /\ activityHistory = <<>> /\ priceHistory = <<>> /\ validators = <<>>
    /\ explorerLoading = TRUE
    /\ explorerError = Null
    /\ fanouts = << [url |-> scanUrl, activityPeriod |-> "24h", pricePeriod |-> "24h",
                     validatorsPeriod |-> "24h", errorSince |-> FALSE] >>
    /\ refetches = 0
    /\ settled = NotSettled

\* ------------------------------------------------------------------------
\* Ledger client: one HTTP exchange and what the client makes of it
\* ------------------------------------------------------------------------

VARIABLE
    applied     \* the operation applied last, its arguments, and its outcome

NotApplied == [op |-> "none", args |-> <<>>, result |-> <<>>]

vars == <<storeVars, asyncVars, explorerVars, applied>>

\* the status codes the node answers with
HttpStatuses == {200, 204, 301, 404, 500}

\* the texts of a response body
BodyTexts ==
    { "", "<html>", "null", "{}", "{\"message\":\"m\"}", "{\"error\":\"e\"}",
      "{\"offset\":3}", "{\"created\":<c1>}", "{\"created\":<c1 without contractId>}" }

\* the created event c1 as /v2/events/contract answers with it
c1 == CHOOSE e \in CreatedEvents : e.contractId = "c1"

\* a created event with the offset it carries on the wire
withOffset(e, n) ==
    [contractId |-> e.contractId, templateId |-> e.templateId,
     signatories |-> e.signatories, observers |-> e.observers, offset |-> n]

\* what fetch resolves or rejects with: a network failure, or a response with
\* its status, its statusText (empty over HTTP/2) and its body
Exchanges ==
    { [network |-> TRUE, status |-> 0, statusText |-> "", body |-> ""] } \cup
    { [network |-> FALSE, status |-> st, statusText |-> t, body |-> b] :
        st \in HttpStatuses, t \in {"", "Status"}, b \in BodyTexts }

\* Response.ok
responseOk(x) == 200 <= x.status /\ x.status <= 299

\* a JSON value as the client reads it: null, or an object with the fields the
\* client looks at, each present or absent
JsonObject(message, err, offset, created) ==
    [isNull |-> FALSE, message |-> message, error |-> err, offset |-> offset,
     created |-> created]
JsonNull == [isNull |-> TRUE, message |-> Absent, error |-> Absent, offset |-> Absent,
             created |-> Absent]
EmptyObject == JsonObject(Absent, Absent, Absent, Absent)

\* JSON.parse on the body texts: ok is FALSE where it throws a SyntaxError
JSONparse(text) ==
    CASE text = "null" -> [ok |-> TRUE, value |-> JsonNull]
      [] text = "{}" -> [ok |-> TRUE, value |-> EmptyObject]
      [] text = "{\"message\":\"m\"}" ->
            [ok |-> TRUE, value |-> JsonObject(Present("m"), Absent, Absent, Absent)]
      [] text = "{\"error\":\"e\"}" ->
            [ok |-> TRUE, value |-> JsonObject(Absent, Present("e"), Absent, Absent)]
      [] text = "{\"offset\":3}" ->
            [ok |-> TRUE, value |-> JsonObject(Absent, Absent, Present(3), Absent)]
      [] text = "{\"created\":<c1>}" ->
            [ok |-> TRUE,
             value |-> JsonObject(Absent, Absent, Absent, Present(withOffset(c1, 3)))]
      [] text = "{\"created\":<c1 without contractId>}" ->
            [ok |-> TRUE,
             value |-> JsonObject(Absent, Absent, Absent,
                                  Present(withOffset([c1 EXCEPT !.contractId = Null], 3)))]
      [] OTHER -> [ok |-> FALSE, value |-> JsonNull]

\* a variant of CantonAPIError that does not keep the path
CantonAPIErrorWithoutPath(code, message, path) ==
    [isError |-> TRUE, isAPIError |-> TRUE, status |-> code, path |-> "",
     message |-> "Canton API Error (" \o ToString(code) \o "): " \o message]

\* the Errors the client meets; CantonAPIError carries status and path, and
\* its message is `Canton API Error (${status}): ${message} [${path}]`
CantonAPIError(code, message, path) ==
    [isError |-> TRUE, isAPIError |-> TRUE, status |-> code, path |-> path,
     message |-> "Canton API Error (" \o ToString(code) \o "): " \o message
                    \o " [" \o path \o "]"]
OtherError(message) ==
    [isError |-> TRUE, isAPIError |-> FALSE, status |-> 0, path |-> "", message |-> message]
NoError == [isError |-> FALSE, isAPIError |-> FALSE, status |-> 0, path |-> "", message |-> ""]

\* how a call ends: it returns a value or throws an Error
Returns(v) == [threw |-> FALSE, value |-> v, err |-> NoError]
Throws(e) == [threw |-> TRUE, value |-> Absent, err |-> e]

\* `a || b` where a is an optional string
orText(a, b) == IF a # Absent /\ a[1] # "" THEN a[1] ELSE b

\* request: the message of the error for a response that is not ok
apiErrorMessage(x) ==
    LET parsed == JSONparse(x.body)
    IN IF parsed.ok /\ ~parsed.value.isNull
       THEN orText(parsed.value.message, orText(parsed.value.error, x.body))
       ELSE orText(Present(x.body), x.statusText)

\* CantonClient.request(path), given what fetch resolved or rejected with
request(path, x) ==
    IF x.network THEN Throws(OtherError("Failed to fetch"))
    ELSE IF ~responseOk(x) THEN Throws(CantonAPIError(x.status, apiErrorMessage(x), path))
    ELSE IF x.body = "" THEN Returns(Present(EmptyObject))
    ELSE LET parsed == JSONparse(x.body)
         IN IF parsed.ok THEN Returns(Present(parsed.value))
            ELSE Throws(OtherError("Unexpected token in JSON"))

\* the try block of getConnectionStatus: ping(), then `ledgerEnd.offset`, which
\* throws a TypeError on null
pingLedgerEnd(x) ==
    LET r == request("/v2/state/ledger-end", x)
    IN IF r.threw THEN [ok |-> FALSE, offset |-> Absent, err |-> r.err]
       ELSE IF r.value[1].isNull
       THEN [ok |-> FALSE, offset |-> Absent,
             err |-> OtherError("Cannot read properties of null")]
       ELSE [ok |-> TRUE, offset |-> r.value[1].offset, err |-> NoError]

\* a variant of isNotFound: any error of the API
isAPIFailure(err) == err.isAPIError

\* `error instanceof CantonAPIError && error.status === 404`
isNotFound(err) == err.isAPIError /\ err.status = 404

\* the catch block getContract, getTransaction and getPackage share
nullOnNotFound(err) == IF isNotFound(err) THEN Returns(Absent) ELSE Throws(err)

\* a null in JavaScript is an absent value here
orNull(json) == IF json.isNull THEN Absent ELSE Present(json)

\* CantonClient.getContract: the contract of `response.created`, or null
getContract(x) ==
    LET r == request("/v2/events/contract", x)
    IN IF r.threw THEN nullOnNotFound(r.err)
       ELSE IF r.value[1].isNull THEN Throws(OtherError("Cannot read properties of null"))
       ELSE IF r.value[1].created # Absent
       THEN LET created == r.value[1].created[1]
            IN Returns(Present(eventToContract(created, created.offset)))
       ELSE Returns(Absent)

\* CantonClient.getTransaction: the body as it is
getTransaction(x) ==
    LET r == request("/v2/updates/transaction-by-id", x)
    IN IF r.threw THEN nullOnNotFound(r.err) ELSE Returns(orNull(r.value[1]))

\* CantonClient.getPackage: the body as it is
getPackage(x) ==
    LET r == request("/v2/packages/pkg", x)
    IN IF r.threw THEN nullOnNotFound(r.err) ELSE Returns(orNull(r.value[1]))

\* ------------------------------------------------------------------------
\* Ledger client: operations applied to an exchange
\* ------------------------------------------------------------------------

RequestPaths == {"/v2/parties", "/v2/state/active-contracts"}

\* one operation is applied in a behaviour: the operations keep no state
Applied(name, args, result) ==
    /\ applied = NotApplied
    /\ applied' = [op |-> name, args |-> args, result |-> result]

Request(path, x) == Applied("request", <<path, x>>, request(path, x))

GetConnectionStatus(endpoint, x) ==
    Applied("getConnectionStatus", <<endpoint, x>>,
            getConnectionStatus(endpoint, pingLedgerEnd(x)))

GetContract(x) == Applied("getContract", <<x>>, getContract(x))

GetTransaction(x) == Applied("getTransaction", <<x>>, getTransaction(x))

GetPackage(x) == Applied("getPackage", <<x>>, getPackage(x))

\* the template ids given to a query: absent, or a list
TemplateIds == {"T1", "T2"}
TemplateIdLists == {Absent} \cup { Present(ids) : ids \in SeqsUpTo(TemplateIds, MaxTemplateIds) }

wildcardClause == [filter |-> "WildcardFilter", templateId |-> "", includeCreatedEventBlob |-> TRUE]
templateClause(templateId) ==
    [filter |-> "TemplateFilter", templateId |-> templateId, includeCreatedEventBlob |-> TRUE]

\* a variant of buildTransactionFilter that keeps the any-party wildcard
\* beside the clauses of the party
buildTransactionFilterWithWildcard(partyId, templateIds) ==
    [filtersByParty |->
        IF templateIds = Absent \/ templateIds[1] = <<>>
        THEN [p \in {} |-> <<>>]
        ELSE [p \in {partyId} |->
                [k \in 1..Len(templateIds[1]) |-> templateClause(templateIds[1][k])]],
     filtersForAnyParty |-> Present(<<wildcardClause>>)]

\* CantonClient.buildTransactionFilter: filtersByParty maps a party to its
\* cumulative clauses, filtersForAnyParty is the optional cumulative list
buildTransactionFilter(partyId, templateIds) ==
    IF templateIds = Absent \/ Len(templateIds[1]) = 0
    THEN [filtersByParty |-> [p \in {} |-> <<>>],
          filtersForAnyParty |-> Present(<<wildcardClause>>)]
    ELSE [filtersByParty |->
            [p \in {partyId} |->
                [k \in 1..Len(templateIds[1]) |-> templateClause(templateIds[1][k])]],
          filtersForAnyParty |-> Absent]

BuildTransactionFilter(partyId, templateIds) ==
    Applied("buildTransactionFilter", <<partyId, templateIds>>,
            buildTransactionFilter(partyId, templateIds))

\* created events that lack contractId or templateId on the wire
MalformedEvents ==
    { [e EXCEPT !.contractId = Null] : e \in CreatedEvents } \cup
    { [e EXCEPT !.templateId = Null] : e \in CreatedEvents }

EventToContract(event, offset) ==
    Applied("eventToContract", <<event, offset>>, eventToContract(event, offset))

\* the stream items of an active-contracts response, well formed or not
WireItems ==
    { [hasCreated |-> FALSE, createdEvent |-> NoEvent, offset |-> 0] } \cup
    { [hasCreated |-> TRUE, createdEvent |-> e, offset |-> 1] :
        e \in CreatedEvents \cup MalformedEvents }

\* getActiveContracts, from the response on: the loop throws nothing
GetActiveContracts(response) ==
    Applied("getActiveContracts", <<response>>, Returns(getActiveContracts(response)))

Limits == 0..MaxLimit

\* getTransactions with `limit` passed in its options, from the response on
GetTransactions(response, limit) ==
    Applied("getTransactions", <<response, limit>>, getTransactions(response, limit))

\* ------------------------------------------------------------------------
\* Pages: strings
\* ------------------------------------------------------------------------

\* A string the pages take apart is a sequence of characters.

\* String.prototype.split(':'): the segments between the colons, at least one
RECURSIVE split(_)
split(str) ==
    IF \A k \in 1..Len(str) : str[k] # ":"
    THEN <<str>>
    ELSE LET i == CHOOSE k \in 1..Len(str) :
                    str[k] = ":" /\ \A j \in 1..(k - 1) : str[j] # ":"
         IN <<SubSeq(str, 1, i - 1)>> \o split(SubSeq(str, i + 1, Len(str)))

\* `a || b` on strings: the empty string is falsy
orString(a, b) == IF a # <<>> THEN a ELSE b

\* `parts[k]`, undefined (falsy) beyond the end, then `|| rest`
partOr(parts, k, rest) == IF k <= Len(parts) THEN orString(parts[k], rest) ELSE rest

\* ------------------------------------------------------------------------
\* Templates page (pages/Templates): templateStats and packageGroups
\* ------------------------------------------------------------------------

\* the template ids of the contracts on the page
TemplateIdTexts ==
    { <<"p", ":", "M", ":", "A">>, <<"p", ":", "M", ":", "B">>,
      <<"q", ":", "N", ":", "A">>, <<"A">>, <<>> }

\* the contracts the page is given, as far as it reads them
PageContracts ==
    { [templateId |-> t, stakeholders |-> sh] :
        t \in TemplateIdTexts, sh \in {<<"P1">>, <<"P1", "P2">>} }

\* the index of the entry of templateId in entries, 0 when there is none
entryOf(entries, templateId) ==
    IF \E k \in 1..Len(entries) : entries[k].templateId = templateId
    THEN CHOOSE k \in 1..Len(entries) : entries[k].templateId = templateId
    ELSE 0

\* a variant of addContract that leaves the count of an existing entry alone
addContractUncounted(entries, contract) ==
    LET k == entryOf(entries, contract.templateId)
        parts == split(contract.templateId)
    IN IF k # 0 THEN entries
       ELSE Append(entries,
                [templateId |-> contract.templateId,
                 packageId |-> partOr(parts, 1, <<>>),
                 moduleName |-> partOr(parts, 2, <<>>),
                 templateName |-> partOr(parts, 3, orString(parts[Len(parts)], <<>>)),
                 count |-> 1,
                 uniqueStakeholders |-> Range(contract.stakeholders)])

\* the body of contracts.forEach in templateStats; the Map keeps its entries
\* in the order they were first set
addContract(entries, contract) ==
    LET k == entryOf(entries, contract.templateId)
        parts == split(contract.templateId)
    IN IF k # 0
       THEN [entries EXCEPT ![k] =
                [@ EXCEPT !.count = @ + 1,
                          !.uniqueStakeholders = @ \cup Range(contract.stakeholders)]]
       ELSE Append(entries,
                [templateId |-> contract.templateId,
                 packageId |-> partOr(parts, 1, <<>>),
                 moduleName |-> partOr(parts, 2, <<>>),
                 templateName |-> partOr(parts, 3, orString(parts[Len(parts)], <<>>)),
                 count |-> 1,
                 uniqueStakeholders |-> Range(contract.stakeholders)])

RECURSIVE collectStats(_, _)
collectStats(entries, cs) ==
    IF cs = <<>> THEN entries ELSE collectStats(addContract(entries, Head(cs)), Tail(cs))

\* the sequence without its k-th element
withoutAt(seq, k) == SubSeq(seq, 1, k - 1) \o SubSeq(seq, k + 1, Len(seq))

\* Array.prototype.sort((a, b) => b.count - a.count): stable, largest count first
RECURSIVE sortByCount(_)
sortByCount(entries) ==
    IF entries = <<>> THEN <<>>
    ELSE LET m == CHOOSE k \in 1..Len(entries) :
                    /\ \A j \in 1..Len(entries) : entries[j].count <= entries[k].count
                    /\ \A j \in 1..(k - 1) : entries[j].count < entries[k].count
         IN <<entries[m]>> \o sortByCount(withoutAt(entries, m))

\* Templates.templateStats
templateStats(cs) == sortByCount(collectStats(<<>>, cs))

\* the body of templateStats.forEach in packageGroups
addTemplate(groups, template) ==
    IF \E k \in 1..Len(groups) : groups[k].packageId = template.packageId
    THEN LET k == CHOOSE j \in 1..Len(groups) : groups[j].packageId = template.packageId
         IN [groups EXCEPT ![k] = [@ EXCEPT !.templates = Append(@, template)]]
    ELSE Append(groups, [packageId |-> template.packageId, templates |-> <<template>>])

\* Templates.packageGroups: the entries of the Map, package id and templates
RECURSIVE collectGroups(_, _)
collectGroups(groups, templates) ==
    IF templates = <<>> THEN groups
    ELSE collectGroups(addTemplate(groups, Head(templates)), Tail(templates))

packageGroups(entries) == collectGroups(<<>>, entries)

\* the Templates page renders a contract list
RenderTemplates(cs) ==
    LET entries == templateStats(cs)
    IN Applied("Templates", <<cs>>, [templateStats |-> entries, packageGroups |-> packageGroups(entries)])

\* ------------------------------------------------------------------------
\* Scan explorer page (pages/ScanExplorer): extractTransfers
\* ------------------------------------------------------------------------

UpperCase ==
    <<"A", "B", "C", "D", "E", "F", "G", "H", "I", "J", "K", "L", "M",
      "N", "O", "P", "Q", "R", "S", "T", "U", "V", "W", "X", "Y", "Z">>

LowerCase ==
    <<"a", "b", "c", "d", "e", "f", "g", "h", "i", "j", "k", "l", "m",
      "n", "o", "p", "q", "r", "s", "t", "u", "v", "w", "x", "y", "z">>

\* String.prototype.toLowerCase
toLowerCase(str) ==
    [k \in 1..Len(str) |->
        IF \E u \in 1..Len(UpperCase) : UpperCase[u] = str[k]
        THEN LowerCase[CHOOSE u \in 1..Len(UpperCase) : UpperCase[u] = str[k]]
        ELSE str[k]]

\* String.prototype.includes
includes(str, sub) ==
    \E i \in 0..(Len(str) - Len(sub)) : SubSeq(str, i + 1, i + Len(sub)) = sub

\* Array.prototype.pop on the segments of a split: the last one
pop(parts) == parts[Len(parts)]

\* the names of choices and the template ids of the events on the page
ChoiceTransferA == <<"T", "r", "a", "n", "s", "f", "e", "r", "_", "A">>
ChoiceTRANSFERr == <<"T", "R", "A", "N", "S", "F", "E", "R", "_", "r">>
ChoiceNoop == <<"N", "o", "o", "p">>
TemplateTransfer == <<"p", ":", "M", ":", "T", "r", "a", "n", "s", "f", "e", "r">>
TemplateCoin == <<"p", ":", "M", ":", "C", "o", "i", "n">>

ScanEvent(choice, template_id) == [choice |-> choice, template_id |-> template_id]

\* the values of events_by_id of an update, in the order of Object.values;
\* undefined when the update has no events_by_id
EventsById ==
    { Absent,
      Present(<<>>),
      Present(<<ScanEvent(Present(ChoiceTransferA), Absent),
                ScanEvent(Present(ChoiceTRANSFERr), Present(TemplateCoin))>>),
      Present(<<ScanEvent(Absent, Present(TemplateTransfer))>>),
      Present(<<ScanEvent(Present(ChoiceNoop), Present(TemplateTransfer))>>),
      Present(<<ScanEvent(Present(ChoiceNoop), Present(TemplateCoin)),
                ScanEvent(Absent, Absent)>>) }

\* the update lists of the page: the k-th update has update_id k
ScanUpdates ==
    UNION { { [k \in 1..n |-> [update_id |-> k, events_by_id |-> es[k]]] :
                es \in [1..n -> EventsById] } : n \in 0..MaxUpdates }

\* `x || d` and `x ?? d` on an optional value that is not falsy when present
valueOr(opt, d) == IF opt = Absent THEN d ELSE opt[1]

\* event.choice || event.template_id?.split(':').pop() || ''
transferLabel(event) ==
    orString(valueOr(event.choice, <<>>),
             IF event.template_id = Absent THEN <<>>
             ELSE orString(pop(split(event.template_id[1])), <<>>))

\* the entries one update pushes; the age of an entry is a rendering of the
\* clock and is left out
RECURSIVE transfersOfEvents(_, _)
transfersOfEvents(update_id, events) ==
    IF events = <<>> THEN <<>>
    ELSE LET label == transferLabel(Head(events))
         IN (IF label = <<>> \/ ~includes(toLowerCase(label), <<"t", "r", "a", "n", "s", "f", "e", "r">>)
             THEN <<>>
             ELSE <<[updateId |-> update_id, label |-> label]>>)
            \o transfersOfEvents(update_id, Tail(events))

RECURSIVE allTransfers(_)
allTransfers(us) ==
    IF us = <<>> THEN <<>>
    ELSE transfersOfEvents(Head(us).update_id, valueOr(Head(us).events_by_id, <<>>))
            \o allTransfers(Tail(us))

\* the cap of extractTransfers
TransferCap == 8

\* ScanExplorer.extractTransfers
extractTransfers(us) == slice(allTransfers(us), TransferCap)

ExtractTransfers(us) == Applied("extractTransfers", <<us>>, extractTransfers(us))

\* ------------------------------------------------------------------------
\* Specifications
\* ------------------------------------------------------------------------

Init == StoreInit /\ ExplorerInit /\ applied = NotApplied

\* a step of the store; the explorer page is left alone
Next ==
    \/ \E cfg \in Configs : Connect(cfg)
         /\ UNCHANGED <<explorerVars, applied>>
    \/ \E i \in Probing, ping \in PingOutcomes : ConnectNotConnected(i, ping)
         /\ UNCHANGED <<explorerVars, applied>>
    \/ \E i \in Probing, ping \in PingOutcomes : ConnectProbed(i, ping)
         /\ UNCHANGED <<explorerVars, applied>>
    \/ \E i \in Listing, response \in PartyResponses : ConnectOk(i, response)
         /\ UNCHANGED <<explorerVars, applied>>
    \/ \E i \in Listing, err \in Thrown("/v2/parties") : ConnectThrew(i, err)
         /\ UNCHANGED <<explorerVars, applied>>
    \/ Disconnect
         /\ UNCHANGED <<explorerVars, applied>>
    \/ Reset
         /\ UNCHANGED <<explorerVars, applied>>
    \/ RefreshConnection
         /\ UNCHANGED <<explorerVars, applied>>
    \/ \E i \in Reprobing, ping \in PingOutcomes : RefreshConnectionDone(i, ping)
         /\ UNCHANGED <<explorerVars, applied>>
    \/ \E party \in Parties : SetActiveParty(party)
         /\ UNCHANGED <<explorerVars, applied>>
    \/ RefreshData
         /\ UNCHANGED <<explorerVars, applied>>
    \/ LoadContracts
         /\ UNCHANGED <<explorerVars, applied>>
    \/ LoadTransactions(DefaultLimit)
         /\ UNCHANGED <<explorerVars, applied>>
    \/ \E i \in ContractsInFlight : \E response \in ACSResponses[tasks[i].party] : LoadContractsOk(i, response)
         /\ UNCHANGED <<explorerVars, applied>>
    \/ \E i \in ContractsInFlight, err \in Thrown("/v2/state/active-contracts") : LoadContractsFail(i, err)
         /\ UNCHANGED <<explorerVars, applied>>
    \/ \E i \in TransactionsInFlight : \E response \in TxResponses[tasks[i].party] : LoadTransactionsOk(i, response)
         /\ UNCHANGED <<explorerVars, applied>>
    \/ \E i \in TransactionsInFlight, err \in Thrown("/v2/updates/transactions") : LoadTransactionsFail(i, err)
         /\ UNCHANGED <<explorerVars, applied>>

Spec == Init /\ [][Next]_vars

\* the arrival of the answer to a request that is in flight, and the resumption
\* of the call that awaits it
Responds ==
    \/ \E i \in Probing, ping \in PingOutcomes :
          ConnectNotConnected(i, ping) \/ ConnectProbed(i, ping)
    \/ \E i \in Listing, response \in PartyResponses : ConnectOk(i, response)
    \/ \E i \in Listing, err \in Thrown("/v2/parties") : ConnectThrew(i, err)
    \/ \E i \in Reprobing, ping \in PingOutcomes : RefreshConnectionDone(i, ping)
    \/ \E i \in ContractsInFlight :
          \/ \E response \in ACSResponses[tasks[i].party] : LoadContractsOk(i, response)
          \/ \E err \in Thrown("/v2/state/active-contracts") : LoadContractsFail(i, err)
    \/ \E i \in TransactionsInFlight :
          \/ \E response \in TxResponses[tasks[i].party] : LoadTransactionsOk(i, response)
          \/ \E err \in Thrown("/v2/updates/transactions") : LoadTransactionsFail(i, err)

\* the store when every request is answered or fails in the end: fetch settles
\* its promise, and the event loop resumes the call suspended on it
FairSpec == Init /\ [][Next]_vars /\ WF_vars(Responds /\ UNCHANGED <<explorerVars, applied>>)

\* the explorer page opened on a first visit, with no connection persisted
ExplorerFirstVisit == Init /\ config = Null

\* a step of the explorer page; the store is left alone
ExplorerNext ==
    \/ \E period \in Periods : SetActivityPeriod(period)
         /\ UNCHANGED <<storeVars, asyncVars, applied>>
    \/ \E period \in Periods : SetPricePeriod(period)
         /\ UNCHANGED <<storeVars, asyncVars, applied>>
    \/ \E period \in Periods : SetValidatorsPeriod(period)
         /\ UNCHANGED <<storeVars, asyncVars, applied>>
    \/ \E url \in ScanUrls : SetScanUrl(url)
         /\ UNCHANGED <<storeVars, asyncVars, applied>>
    \/ ExplorerRefresh
         /\ UNCHANGED <<storeVars, asyncVars, applied>>
    \/ \E i \in 1..Len(fanouts) : \E results \in FanoutResults(fanouts[i]) : ExplorerSettle(i, results)
         /\ UNCHANGED <<storeVars, asyncVars, applied>>

ExplorerSpec == ExplorerFirstVisit /\ [][ExplorerNext]_vars

\* the client's operations applied to every exchange, the store and the
\* explorer page left alone
ClientNext ==
    \/ \E path \in RequestPaths, x \in Exchanges : Request(path, x)
         /\ UNCHANGED <<storeVars, asyncVars, explorerVars>>
    \/ \E endpoint \in Configs, x \in Exchanges : GetConnectionStatus(endpoint, x)
         /\ UNCHANGED <<storeVars, asyncVars, explorerVars>>
    \/ \E x \in Exchanges : GetContract(x)
         /\ UNCHANGED <<storeVars, asyncVars, explorerVars>>
    \/ \E x \in Exchanges : GetTransaction(x)
         /\ UNCHANGED <<storeVars, asyncVars, explorerVars>>
    \/ \E x \in Exchanges : GetPackage(x)
         /\ UNCHANGED <<storeVars, asyncVars, explorerVars>>
    \/ \E partyId \in Parties, templateIds \in TemplateIdLists :
            BuildTransactionFilter(partyId, templateIds)
         /\ UNCHANGED <<storeVars, asyncVars, explorerVars>>
    \/ \E event \in CreatedEvents \cup MalformedEvents, offset \in 1..2 :
            EventToContract(event, offset)
         /\ UNCHANGED <<storeVars, asyncVars, explorerVars>>
    \/ \E response \in SeqsUpTo(WireItems, MaxResp) : GetActiveContracts(response)
         /\ UNCHANGED <<storeVars, asyncVars, explorerVars>>
    \/ \E partyId \in Parties, limit \in Limits :
          \E response \in TxResponses[partyId] : GetTransactions(response, limit)
         /\ UNCHANGED <<storeVars, asyncVars, explorerVars>>

ClientSpec == ExplorerFirstVisit /\ [][ClientNext]_vars

\* the pure computations of the pages applied to their inputs
PagesNext ==
    \/ \E cs \in SeqsUpTo(PageContracts, MaxContracts) : RenderTemplates(cs)
         /\ UNCHANGED <<storeVars, asyncVars, explorerVars>>
    \/ \E us \in ScanUpdates : ExtractTransfers(us)
         /\ UNCHANGED <<storeVars, asyncVars, explorerVars>>

PagesSpec == ExplorerFirstVisit /\ [][PagesNext]_vars

\* ------------------------------------------------------------------------
\* Store: claims
\* ------------------------------------------------------------------------

\* the parties a contract was returned for: its stakeholders
VisibleTo(contract) == Range(contract.stakeholders)

\* the snapshot holds nothing but data of `party`
OnlyDataFor(party) ==
    /\ \A c \in DOMAIN contracts : party \in VisibleTo(contracts[c])
    /\ \A k \in 1..Len(transactions) : transactions[k].party = party
    /\ \/ lastOffset = 0
       \/ \E t \in LedgerTransactions : t.party = party /\ t.offset = lastOffset

\* C1: when setActiveParty(P2) was called while an active-contracts request for
\* another party was in flight, then once no active-contracts request is in
\* flight the contracts map holds only contracts returned for P2.
C1_NoResidualContracts ==
    (switchCtx = "raced" /\ ContractsInFlight = {})
        => \A c \in DOMAIN contracts : activeParty \in VisibleTo(contracts[c])

\* C2: a load whose result arrives after a later-started load of the same kind
\* has committed does not overwrite what that later load committed.
C2_LaterStartedWins ==
    [][\A i \in Idx :
        /\ (tasks[i].staleC /\ \E r \in ACSResponses[tasks[i].party] : LoadContractsOk(i, r))
              => contracts' = contracts
        /\ (tasks[i].staleT /\ \E r \in TxResponses[tasks[i].party] : LoadTransactionsOk(i, r))
              => (transactions' = transactions /\ lastOffset' = lastOffset)]_vars

\* C3: after a connect that returned false the store is not connected, shows an
\* error and holds no client.
C3_FailedConnectNoClient ==
    lastOp = "connect:false"
        => (~status.connected /\ error # Null /\ client = Null)

\* C4: a connect that returns true leaves the store connected with this call's
\* client and config, the party list just fetched, no error and no active party.
C4_ConnectedNoParty ==
    [][\A i \in Idx, response \in PartyResponses :
        ConnectOk(i, response)
            => /\ status'.connected
               /\ client' = tasks[i].cfg
               /\ config' = tasks[i].cfg
               /\ availableParties' = getParties(response)
               /\ error' = Null
               /\ activeParty' = Null]_vars

\* C5: the state disconnect() leaves, in its one step, has client and config
\* null, status not connected, no active party, no available parties, no
\* contracts, no transactions, lastOffset 0, isLoading false and error null.
C5_DisconnectClearsAll ==
    lastOp = "disconnect"
        => /\ client = Null /\ config = Null
           /\ ~status.connected
           /\ activeParty = Null /\ availableParties = <<>>
           /\ contracts = EmptyMap /\ transactions = <<>>
           /\ lastOffset = 0 /\ ~isLoading /\ error = Null

\* C5 witness: disconnect() has just run while a reload of a connected store
\* with an active party was still in flight
C5_Witness ==
    /\ lastOp = "disconnect"
    /\ \E i \in Idx : tasks[i].op = "refreshData" /\ tasks[i].lc = "ok"

\* C6: when setActiveParty(P) was called with no load in flight and no other
\* load was started since, then once its reload has completed the snapshot
\* holds only data of P, whether the reload succeeded or failed.
C6_SnapshotReplaced ==
    (switchCtx = "solo" /\ LoadsInFlight = {}) => OnlyDataFor(activeParty)

\* a step of refreshData(): its call, or the completion of one of its loads
RefreshDataStep ==
    \/ RefreshData
    \/ \E i \in Idx :
        /\ tasks[i].op = "refreshData"
        /\ \/ \E r \in ACSResponses[tasks[i].party] : LoadContractsOk(i, r)
           \/ \E e \in Thrown("/v2/state/active-contracts") : LoadContractsFail(i, e)
           \/ \E r \in TxResponses[tasks[i].party] : LoadTransactionsOk(i, r)
           \/ \E e \in Thrown("/v2/updates/transactions") : LoadTransactionsFail(i, e)

\* C7: no step of refreshData(), whether its loads succeed or fail, changes
\* activeParty, availableParties, client, config or status.
C7_RefreshKeepsConnectionAndParty ==
    [][RefreshDataStep
        => UNCHANGED <<activeParty, availableParties, client, config, status>>]_vars

\* C7 witness: a refreshData() call has completed with one load failed and the
\* other committed
C7_Witness ==
    /\ lastOp = "loadTransactions:fail"
    /\ tasks = <<>>
    /\ contracts # EmptyMap
    /\ status.connected /\ activeParty # Null /\ client # Null

\* C8: in refreshData(), a failed load leaves the other load in flight, the
\* other load commits its result when its response arrives, and the promise
\* of refreshData is never rejected.
C8_LoadsIndependent ==
    /\ [](~unhandled)
    /\ [][\A i \in Idx :
            /\ (\E e \in Thrown("/v2/state/active-contracts") : LoadContractsFail(i, e))
                  => (tasks[i].lt = "pending"
                        => \E j \in 1..Len(tasks') : tasks'[j].lt = "pending" /\ tasks'[j].lc = "failed")
            /\ (\E e \in Thrown("/v2/updates/transactions") : LoadTransactionsFail(i, e))
                  => (tasks[i].lc = "pending"
                        => \E j \in 1..Len(tasks') : tasks'[j].lc = "pending" /\ tasks'[j].lt = "failed")
            /\ (tasks[i].lc = "failed" /\ tasks[i].lt = "pending")
                  => \A r \in TxResponses[tasks[i].party] :
                        LoadTransactionsOk(i, r)
                            => transactions' = getTransactions(r, tasks[i].limit)
            /\ (tasks[i].lt = "failed" /\ tasks[i].lc = "pending")
                  => \A r \in ACSResponses[tasks[i].party] :
                        LoadContractsOk(i, r)
                            => contracts' = contractMap(getActiveContracts(r))]_vars

\* C8 witness: setActiveParty's refreshData() has completed, its contracts load
\* failed and its transactions load committed a non-empty list
C8_Witness ==
    /\ calls = 2
    /\ tasks = <<>>
    /\ lastOp = "loadTransactions:ok"
    /\ error = "error /v2/state/active-contracts"
    /\ transactions # <<>>
    /\ ~unhandled

\* C9: a failed loadContracts leaves contracts as it was, a failed
\* loadTransactions leaves transactions and lastOffset as they were; both set
\* error to a message and isLoading to false.
C9_FailedLoadKeepsData ==
    [][\A i \in Idx :
        /\ (\E e \in Thrown("/v2/state/active-contracts") : LoadContractsFail(i, e))
              => (contracts' = contracts /\ error' # Null /\ ~isLoading')
        /\ (\E e \in Thrown("/v2/updates/transactions") : LoadTransactionsFail(i, e))
              => (transactions' = transactions /\ lastOffset' = lastOffset
                  /\ error' # Null /\ ~isLoading')]_vars

\* C9 witness: a loadContracts has just failed while the store holds contracts
\* of an earlier load
C9_Witness ==
    /\ lastOp = "loadContracts:fail"
    /\ contracts # EmptyMap
    /\ error = "error /v2/state/active-contracts"
    /\ ~isLoading

\* ------------------------------------------------------------------------
\* Scan explorer: claims
\* ------------------------------------------------------------------------

\* the fan-out that settled last had its two primary calls fulfilled and its
\* six secondary calls rejected
OnlySecondaryFailed == settled.settled /\ settled.rejected = Secondary

ExplorerSettles == Len(fanouts') < Len(fanouts)

exchange == applied.args[Len(applied.args)]

\* C12: getConnectionStatus returns a value for every outcome of ping: when
\* the node answers 2xx with a ledger end (a JSON object, or the empty body
\* that is read as the empty object) the value is connected with the endpoint
\* and the offset of the answer and no error; for a network failure, a
\* non-2xx answer or a body that is no JSON object it is not connected, with
\* the endpoint, no ledger end and a non-empty error.
C12_ConnectionStatusNeverThrows ==
    applied.op = "getConnectionStatus" =>
        LET st == applied.result
            reply == request("/v2/state/ledger-end", exchange)
        IN /\ st.endpoint = applied.args[1]
           /\ DOMAIN st = {"connected", "endpoint", "ledgerEnd", "error"}
           /\ IF ~reply.threw /\ ~reply.value[1].isNull
              THEN st.connected /\ st.error = Null /\ st.ledgerEnd = reply.value[1].offset
              ELSE ~st.connected /\ st.ledgerEnd = Absent
                   /\ st.error # Null /\ st.error # ""

\* C12 witness: the node answered 500 with an empty body and no status text,
\* and getConnectionStatus returned a status that is not connected and names
\* the failure
C12_Witness ==
    /\ applied.op = "getConnectionStatus"
    /\ exchange.status = 500 /\ exchange.body = "" /\ exchange.statusText = ""
    /\ ~applied.result.connected
    /\ applied.result.error = "Canton API Error (500):  [/v2/state/ledger-end]"

\* C13: getContract, getTransaction and getPackage return null when the node
\* answers 404, and throw the error of the request for every other non-2xx
\* answer and for a network failure.
C13_NullOnlyOnNotFound ==
    applied.op \in {"getContract", "getTransaction", "getPackage"} =>
        LET r == applied.result
        IN /\ (~exchange.network /\ exchange.status = 404)
                => (~r.threw /\ r.value = Absent)
           /\ (exchange.network \/ (~responseOk(exchange) /\ exchange.status # 404))
                => /\ r.threw
                   /\ exchange.network => ~r.err.isAPIError
                   /\ ~exchange.network
                        => (r.err.isAPIError /\ r.err.status = exchange.status)

\* C13 witness: getPackage was answered 500 and threw the API error with
\* status 500
C13_Witness ==
    /\ applied.op = "getPackage"
    /\ exchange.status = 500
    /\ applied.result.threw
    /\ applied.result.err.isAPIError /\ applied.result.err.status = 500

\* C17: a request that is answered with a status outside 200..299 throws a
\* CantonAPIError with that status and the path of the request; a request
\* answered 2xx with an empty body returns the empty object.
C17_RequestErrorsAndEmptyBody ==
    applied.op = "request" =>
        LET r == applied.result
        IN /\ (~exchange.network /\ ~(exchange.status \in 200..299))
                => /\ r.threw /\ r.err.isAPIError
                   /\ r.err.status = exchange.status
                   /\ r.err.path = applied.args[1]
           /\ (~exchange.network /\ exchange.status \in 200..299 /\ exchange.body = "")
                => (~r.threw /\ r.value = Present(EmptyObject))

\* C17 witness: a request to /v2/parties was answered 404 and threw the API
\* error with status 404 and that path
C17_Witness ==
    /\ applied.op = "request"
    /\ applied.args[1] = "/v2/parties"
    /\ exchange.status = 404
    /\ applied.result.threw
    /\ applied.result.err.status = 404 /\ applied.result.err.path = "/v2/parties"

\* C14: without template ids (none given, or an empty list)
\* buildTransactionFilter returns a filter whose per-party map is empty and
\* whose any-party clauses are exactly one wildcard; with a non-empty list it
\* returns a filter without any-party clauses whose per-party map has the
\* requesting party as its only key, holding one template clause per id
\* given, in the order given.
C14_FilterShape ==
    applied.op = "buildTransactionFilter" =>
        LET partyId == applied.args[1]
            templateIds == applied.args[2]
            filter == applied.result
        IN IF templateIds = Absent \/ templateIds = Present(<<>>)
           THEN /\ DOMAIN filter.filtersByParty = {}
                /\ filter.filtersForAnyParty # Absent
                /\ Len(filter.filtersForAnyParty[1]) = 1
                /\ filter.filtersForAnyParty[1][1].filter = "WildcardFilter"
           ELSE /\ filter.filtersForAnyParty = Absent
                /\ DOMAIN filter.filtersByParty = {partyId}
                /\ Len(filter.filtersByParty[partyId]) = Len(templateIds[1])
                /\ \A k \in 1..Len(templateIds[1]) :
                      /\ filter.filtersByParty[partyId][k].filter = "TemplateFilter"
                      /\ filter.filtersByParty[partyId][k].templateId = templateIds[1][k]

\* C14 witness: the filter built for P1 and the ids T2, T1 holds the clauses
\* of T2 and T1, in that order, under P1
C14_Witness ==
    /\ applied.op = "buildTransactionFilter"
    /\ applied.args = <<"P1", Present(<<"T2", "T1">>)>>
    /\ applied.result.filtersByParty["P1"] = <<templateClause("T2"), templateClause("T1")>>
    /\ applied.result.filtersForAnyParty = Absent

\* C15: the stakeholders of the Contract eventToContract returns are the
\* union of the signatories and the observers of the event, and no party is
\* listed twice.
C15_StakeholdersAreUnion ==
    applied.op = "eventToContract" =>
        LET event == applied.args[1]
            contract == applied.result
        IN /\ Range(contract.stakeholders)
                = Range(event.signatories) \cup Range(event.observers)
           /\ Len(contract.stakeholders) = Cardinality(Range(contract.stakeholders))

\* C16: getTransactions called with a limit returns at most limit
\* transactions: the first limit flat transactions of the response, in
\* response order.
C16_AtMostLimit ==
    applied.op = "getTransactions" =>
        LET response == applied.args[1]
            limit == applied.args[2]
            flat == flatTransactions(response)
        IN /\ Len(applied.result) <= limit
           /\ applied.result = SubSeq(flat, 1, IF limit < Len(flat) THEN limit ELSE Len(flat))

\* a created event lacks contractId or templateId
lacksId(event) == event.contractId = Null \/ event.templateId = Null

\* C18: getActiveContracts and getContract, given a created event without
\* contractId or templateId, throw; they return no Contract whose contractId
\* or templateId is absent.
C18_NoContractWithoutIds ==
    /\ applied.op = "getActiveContracts" =>
          LET response == applied.args[1]
          IN /\ (\E k \in 1..Len(response) :
                    response[k].hasCreated /\ lacksId(response[k].createdEvent))
                  => applied.result.threw
             /\ ~applied.result.threw
                  => \A k \in 1..Len(applied.result.value) :
                        ~lacksId(applied.result.value[k])
    /\ applied.op = "getContract" =>
          ((~applied.result.threw /\ applied.result.value # Absent)
              => ~lacksId(applied.result.value[1]))

\* ------------------------------------------------------------------------
\* Pages: claims
\* ------------------------------------------------------------------------

\* the text of str before its first colon
beforeColon(str) ==
    LET n == CHOOSE k \in 0..Len(str) :
                /\ \A j \in 1..k : str[j] # ":"
                /\ k = Len(str) \/ str[k + 1] = ":"
    IN SubSeq(str, 1, n)

RECURSIVE sumCounts(_)
sumCounts(entries) == IF entries = <<>> THEN 0 ELSE Head(entries).count + sumCounts(Tail(entries))

\* C19: the template statistics of a contract list hold one entry per
\* distinct templateId, whose count is the number of contracts with that
\* templateId, so that the counts sum to the number of contracts; the package
\* grouping puts every entry in exactly one group, the group of the text
\* before the first colon of its templateId, and no two groups share a key.
C19_TemplateStatsAndGroups ==
    applied.op = "Templates" =>
        LET cs == applied.args[1]
            entries == applied.result.templateStats
            groups == applied.result.packageGroups
        IN /\ { entries[k].templateId : k \in 1..Len(entries) }
                = { cs[k].templateId : k \in 1..Len(cs) }
           /\ \A a, b \in 1..Len(entries) : entries[a].templateId = entries[b].templateId => a = b
           /\ \A k \in 1..Len(entries) :
                entries[k].count
                    = Cardinality({ j \in 1..Len(cs) : cs[j].templateId = entries[k].templateId })
           /\ sumCounts(entries) = Len(cs)
           /\ \A a, b \in 1..Len(groups) : groups[a].packageId = groups[b].packageId => a = b
           /\ \A k \in 1..Len(entries) :
                \E g \in 1..Len(groups) :
                    /\ groups[g].packageId = beforeColon(entries[k].templateId)
                    /\ Cardinality({ j \in 1..Len(groups[g].templates) :
                                        groups[g].templates[j] = entries[k] }) = 1
                    /\ \A h \in 1..Len(groups) :
                          h # g => \A j \in 1..Len(groups[h].templates) :
                                        groups[h].templates[j] # entries[k]

\* C19 witness: of three contracts two share the template p:M:A and one has
\* p:M:B; the statistics count 2 and 1 and both templates are in the group p
C19_Witness ==
    /\ applied.op = "Templates"
    /\ Len(applied.args[1]) = 3
    /\ Len(applied.result.templateStats) = 2
    /\ applied.result.templateStats[1].templateId = <<"p", ":", "M", ":", "A">>
    /\ applied.result.templateStats[1].count = 2
    /\ applied.result.templateStats[2].templateId = <<"p", ":", "M", ":", "B">>
    /\ applied.result.templateStats[2].count = 1
    /\ Len(applied.result.packageGroups) = 1
    /\ applied.result.packageGroups[1].packageId = <<"p">>
    /\ Len(applied.result.packageGroups[1].templates) = 2

\* a name contains "transfer" whatever the case of its letters
namesTransfer(name) ==
    name # Absent /\ includes(toLowerCase(name[1]), <<"t", "r", "a", "n", "s", "f", "e", "r">>)

\* the template name of an event: the last segment of its template id
templateNameOf(event) ==
    IF event.template_id = Absent THEN Absent
    ELSE Present(pop(split(event.template_id[1])))

\* the update ids of the events of us whose choice or template name names a
\* transfer, one per event, in update order
RECURSIVE matchingUpdateIds(_)
matchingUpdateIds(us) ==
    IF us = <<>> THEN <<>>
    ELSE LET events == valueOr(Head(us).events_by_id, <<>>)
             hits == { k \in 1..Len(events) :
                         namesTransfer(events[k].choice) \/ namesTransfer(templateNameOf(events[k])) }
         IN [k \in 1..Cardinality(hits) |-> Head(us).update_id] \o matchingUpdateIds(Tail(us))

\* C20: extractTransfers returns at most 8 events, and they are the first 8,
\* in update order, of the events whose choice name or whose template name
\* contains "transfer" in any case: an event matches whenever either name
\* contains it, and no other event is returned.
C20_FirstEightMatches ==
    applied.op = "extractTransfers" =>
        LET expected == matchingUpdateIds(applied.args[1])
        IN /\ Len(applied.result) <= 8
           /\ [k \in 1..Len(applied.result) |-> applied.result[k].updateId]
                = SubSeq(expected, 1, IF Len(expected) < 8 THEN Len(expected) ELSE 8)

\* ------------------------------------------------------------------------
\* Store: claims on reloads, flags and offsets
\* ------------------------------------------------------------------------

\* C21: every call of setActiveParty(P), in every state of the store, issues
\* one active-contracts request and one transactions request for P.
C21_SetActivePartyReloads ==
    [][\A party \in Parties :
        SetActiveParty(party)
            => /\ Len(tasks') = Len(tasks) + 1
               /\ tasks'[Len(tasks')].party = party
               /\ tasks'[Len(tasks')].lc = "pending"
               /\ tasks'[Len(tasks')].lt = "pending"]_vars

\* C22: the completion of a loadContracts does not set the loading flag to
\* false while a transactions request is in flight, and the completion of a
\* loadTransactions does not while an active-contracts request is in flight.
C22_OwnLoadingState ==
    [][\A i \in Idx :
        /\ (i \in ContractsInFlight
            /\ (\/ \E r \in ACSResponses[tasks[i].party] : LoadContractsOk(i, r)
                \/ \E e \in Thrown("/v2/state/active-contracts") : LoadContractsFail(i, e))
            /\ \E j \in 1..Len(tasks') : tasks'[j].lt = "pending")
              => isLoading'
        /\ (i \in TransactionsInFlight
            /\ (\/ \E r \in TxResponses[tasks[i].party] : LoadTransactionsOk(i, r)
                \/ \E e \in Thrown("/v2/updates/transactions") : LoadTransactionsFail(i, e))
            /\ \E j \in 1..Len(tasks') : tasks'[j].lc = "pending")
              => isLoading']_vars

\* the error shown was recorded by a failed loadContracts / loadTransactions
ContractsError == error = "error /v2/state/active-contracts"
TransactionsError == error = "error /v2/updates/transactions"

\* the start or the completion of a connect
ConnectStep ==
    \/ \E cfg \in Configs : Connect(cfg)
    \/ \E i \in Probing, ping \in PingOutcomes :
          ConnectNotConnected(i, ping) \/ ConnectProbed(i, ping)
    \/ \E i \in Listing, response \in PartyResponses : ConnectOk(i, response)
    \/ \E i \in Listing, err \in Thrown("/v2/parties") : ConnectThrew(i, err)

\* the start or the completion of a loadTransactions / loadContracts call
LoadTransactionsStep ==
    \/ LoadTransactions(DefaultLimit)
    \/ \E i \in Idx :
        /\ tasks[i].op = "loadTransactions"
        /\ \/ \E r \in TxResponses[tasks[i].party] : LoadTransactionsOk(i, r)
           \/ \E e \in Thrown("/v2/updates/transactions") : LoadTransactionsFail(i, e)

LoadContractsStep ==
    \/ LoadContracts
    \/ \E i \in Idx :
        /\ tasks[i].op = "loadContracts"
        /\ \/ \E r \in ACSResponses[tasks[i].party] : LoadContractsOk(i, r)
           \/ \E e \in Thrown("/v2/state/active-contracts") : LoadContractsFail(i, e)

\* C23: the error of a failed loadContracts is not cleared or replaced by the
\* start or the completion of a loadTransactions or of a connect, and the
\* error of a failed loadTransactions is not by those of a loadContracts or of
\* a connect.
C23_OwnErrorState ==
    [][/\ (ContractsError /\ (LoadTransactionsStep \/ ConnectStep)) => error' = error
       /\ (TransactionsError /\ (LoadContractsStep \/ ConnectStep)) => error' = error]_vars

\* C24: after every successful loadTransactions lastOffset is the highest
\* offset of the transactions held, and 0 when none are held.
C24_LastOffsetIsHighestHeld ==
    lastOp = "loadTransactions:ok"
        => lastOffset = (IF transactions = <<>> THEN 0 ELSE maxOffset(transactions))

\* ------------------------------------------------------------------------
\* Scan explorer: claims on overlapping fan-outs
\* ------------------------------------------------------------------------

\* a list on display was fetched for `period`, or is the empty default
ForPeriod(list, period) == list = <<>> \/ list = <<period>>

\* C29: once all fan-outs have completed, the activity history, the price
\* history and the validator list on display are those fetched for the periods
\* now selected, whatever the order the fan-outs completed in; and the loading
\* flag is not false while a fan-out is in flight.
C29_DisplayedForCurrentSelection ==
    /\ fanouts = <<>>
          => /\ ForPeriod(activityHistory, activityPeriod)
             /\ ForPeriod(priceHistory, pricePeriod)
             /\ ForPeriod(validators, validatorsPeriod)
    /\ fanouts # <<>> => explorerLoading

\* ------------------------------------------------------------------------
\* Store: claims on the snapshot and on the guards
\* ------------------------------------------------------------------------

\* the contract ids of the entries of a response that carry a created event
createdIds(response) ==
    { response[k].createdEvent.contractId :
        k \in { j \in 1..Len(response) : response[j].hasCreated } }

\* C25: after a successful loadContracts the ids of the snapshot are the
\* contract ids of the response entries that carry a created event, each id
\* keys the contract that has it, and nothing of the previous snapshot that the
\* response lacks remains.
C25_SnapshotIsProjection ==
    [][\A i \in ContractsInFlight :
        \A r \in ACSResponses[tasks[i].party] :
            LoadContractsOk(i, r)
                => /\ DOMAIN contracts' = createdIds(r)
                   /\ \A c \in DOMAIN contracts' : contracts'[c].contractId = c
                   /\ \A c \in DOMAIN contracts : c \notin createdIds(r) => c \notin DOMAIN contracts']_vars

\* C25 witness: on a store that has loaded the data of P1, a third call has
\* loaded contracts again and the snapshot holds c1 alone
C25_Witness ==
    /\ lastOp = "loadContracts:ok"
    /\ calls = 3
    /\ tasks = <<>>
    /\ activeParty = "P1"
    /\ DOMAIN contracts = {"c1"}
    /\ Len(transactions) = 2

\* C26: in every reachable state with no active party the store holds no
\* contracts and no transactions, also when a load response arrives after
\* disconnect() or reset().
C26_NoPartyNoData ==
    activeParty = Null => (contracts = EmptyMap /\ transactions = <<>>)

\* C27: in every reachable state a connected status comes with a client and a
\* config, under every interleaving of connect, refreshConnection, disconnect
\* and reset with the arrival of probe responses.
C27_ConnectedHasClient ==
    status.connected => (client # Null /\ config # Null)

\* C28: loadContracts and loadTransactions called without a client or without
\* an active party issue no request and change no field of the store;
\* refreshData called without an active party starts neither load.
C28_GuardedLoadsDoNothing ==
    [][/\ ((client = Null \/ activeParty = Null)
            /\ (LoadContracts \/ LoadTransactions(DefaultLimit)))
          => UNCHANGED <<storeVars, tasks>>
       /\ (activeParty = Null /\ RefreshData)
          => UNCHANGED <<storeVars, tasks>>]_vars

\* C28 witness: loadContracts has just returned at its guard on a connected
\* store with no active party
C28_Witness ==
    /\ lastOp = "loadContracts:skip"
    /\ client # Null /\ status.connected
    /\ activeParty = Null
    /\ ~isLoading /\ tasks = <<>>

\* ------------------------------------------------------------------------
\* Store: the loading flag over time
\* ------------------------------------------------------------------------

\* the connect, loadContracts and loadTransactions calls with a request in flight
Waiting == Probing \cup Listing \cup LoadsInFlight

\* C30: when every request is answered or fails in the end, every state with
\* isLoading true is followed by one with isLoading false, and isLoading is
\* false whenever no connect and no load is in flight; and while a request of
\* one of them is in flight, however long, isLoading stays true.
C30_LoadingFollowsRequests ==
    /\ isLoading ~> ~isLoading
    /\ [](Waiting = {} => ~isLoading)
    /\ [](Waiting # {} => isLoading)

====
